---- MODULE Spec2Model ----
(***************************************************************************)
(* Bank-statement entity extraction: the remote-model pipeline             *)
(* (newapproach/enhanced_extraction.py), its batch driver                  *)
(* (newapproach/process_multiple_pdfs.py), the local-model pipeline        *)
(* (src/pdf_processor.py) and its batch driver and summary (main.py).      *)
(*                                                                         *)
(* Text is a sequence of one-character strings.  A Python call is a value  *)
(* [kind |-> "return", value |-> v] or [kind |-> "raise", error |-> e].    *)
(***************************************************************************)
EXTENDS Integers, Sequences, FiniteSets, TLC

\* Bounds of the model.
MaxTextLen == 3
MaxValueLen == 2
MaxFiles == 3
MaxResults == 2
MaxPageLen == 3
MaxPages == 2

Chars == {"a", " "}

SeqsUpTo(S, n) == UNION {[1..k -> S] : k \in 0..n}

Ret(v) == [kind |-> "return", value |-> v]

Raise(e) == [kind |-> "raise", error |-> e]

\* Python's None, and a value that is not None.
None == << >>

Some(v) == <<v>>

----------------------------------------------------------------------------
\* Python str methods used by the pipeline.

IsSpace(c) == c \in {" ", "\n", "\t"}

RECURSIVE lstrip(_)
lstrip(s) == IF Len(s) > 0 /\ IsSpace(Head(s)) THEN lstrip(Tail(s)) ELSE s

RECURSIVE rstrip(_)
rstrip(s) ==
    IF Len(s) > 0 /\ IsSpace(s[Len(s)])
    THEN rstrip(SubSeq(s, 1, Len(s) - 1))
    ELSE s

\* str.strip()
strip(s) == rstrip(lstrip(s))

\* text[i : i + len(sub)] == sub, i a 0-based offset
OccursAt(text, sub, i) ==
    /\ i + Len(sub) <= Len(text)
    /\ SubSeq(text, i + 1, i + Len(sub)) = sub

RECURSIVE findFrom(_, _, _)
findFrom(text, sub, i) ==
    IF i + Len(sub) > Len(text) THEN -1
    ELSE IF OccursAt(text, sub, i) THEN i
    ELSE findFrom(text, sub, i + 1)

RECURSIVE rfindFrom(_, _, _)
rfindFrom(text, sub, i) ==
    IF i < 0 THEN -1
    ELSE IF OccursAt(text, sub, i) THEN i
    ELSE rfindFrom(text, sub, i - 1)

\* str.rfind(): the offset of the last occurrence
rfind(text, sub) == rfindFrom(text, sub, Len(text) - Len(sub))

\* str.find(): the offset of the first occurrence, or -1
find(text, sub) == findFrom(text, sub, 0)

\* text[start:end] for 0 <= start <= end <= len(text)
Slice(text, start, end) == SubSeq(text, start + 1, end)

----------------------------------------------------------------------------
\* The remote model's reply.  The reply text is a sequence of tokens: the
\* JSON object itself, a newline, the two code-fence markers, or text that
\* is no JSON; the object the JSON text denotes is given with it.

JSON_OBJECT == "{...}"
NEWLINE == "\n"
FENCE_JSON == "[fence json]"
FENCE == "[fence]"
NOT_JSON == "Sure! Here"

FieldNames == {"account_number", "name"}

Values == SeqsUpTo(Chars, MaxValueLen)

\* The objects a reply can denote: any subset of the two fields, valued.
Objects == UNION {[F -> Values] : F \in SUBSET FieldNames}

Contents ==
    { <<JSON_OBJECT>>,
      <<FENCE_JSON, NEWLINE, JSON_OBJECT, NEWLINE, FENCE>>,
      <<FENCE, NEWLINE, JSON_OBJECT, NEWLINE, FENCE>>,
      <<NOT_JSON>> }

\* json.loads: whitespace around the one JSON value is ignored
json_loads(content, object) ==
    IF SelectSeq(content, LAMBDA t : t # NEWLINE) = <<JSON_OBJECT>>
    THEN Ret(object)
    ELSE Raise("JSONDecodeError")

\* The cleanup pass: newlines and both code-fence markers are removed.
cleaned_content(content) ==
    SelectSeq(content, LAMBDA t : t \notin {NEWLINE, FENCE_JSON, FENCE})

\* The body of get_entities_from_llm after the reply text is parsed.
validate_fields(result) ==
    IF ~(\A field \in FieldNames : field \in DOMAIN result)
    THEN Raise("Missing required fields")
    ELSE Ret([account_number |-> strip(result["account_number"]),
              name |-> strip(result["name"])])

Call(fn, file) == [fn |-> fn, file |-> file]

\* A call's result with the steps that led to it, in order.
Stepped(call, steps) == call @@ [steps |-> steps]

\* The attempt-th call of client.chat.completions.create for the statement:
\* the response, or the exception the call raises.
\*   api : "ok", "nochoices" (a response without choices), "error" (every
\*         call raises) or "timeout once" (the first call times out, a
\*         later one would be answered)
create(doc, attempt) ==
    IF doc.api = "error" THEN Raise("API error")
    ELSE IF doc.api = "timeout once" /\ attempt = 1
    THEN Raise("Request timed out")
    ELSE IF doc.api = "nochoices" THEN Ret([choices |-> << >>])
    ELSE Ret([choices |-> << doc.content >>])

\* As parse_content, without the except clause of the first json.loads.
parse_content_once(content, object) ==
    Stepped(json_loads(content, object), << Call("json.loads", 1) >>)

\* The two json.loads of get_entities_from_llm: the second, after the
\* cleanup pass, only when the first raises.
parse_content(content, object) ==
    LET first == json_loads(content, object)
    IN  IF first.kind = "return"
        THEN Stepped(first, << Call("json.loads", 1) >>)
        ELSE Stepped(json_loads(cleaned_content(content), object),
                     << Call("json.loads", 1), Call("cleanup", 1),
                        Call("json.loads", 1) >>)

get_entities_from_llm(doc) ==
    LET response == create(doc, 1)
        called == << Call("create", 1) >>
    IN  IF response.kind = "raise" THEN Stepped(response, called)
        ELSE IF response.value.choices = << >>
        THEN Stepped(Raise("No choices in response"), called)
        ELSE
            LET parsed == parse_content(response.value.choices[1],
                                        doc.object)
            IN  Stepped(IF parsed.kind = "raise" THEN Raise(parsed.error)
                        ELSE validate_fields(parsed.value),
                        called \o parsed.steps)

----------------------------------------------------------------------------
\* The text of a page (extract_text, lines 21-71). The characters of a page:
\* "a" is a printable character of no pattern, "\t" one outside
\* [\x20-\x7E\n:], and three stand for the texts the patterns look for:
\*   "D" : "Date Particulars Instruments", a table's column headings
\*   "9" : "01/01/2024 100.00 ", a dated row of a table
\*   "B" : "Balance brought forward"
PageChars == {"a", " ", "\n", "\t", "D", "9", "B"}

\* re.sub(r"[^\x20-\x7E\n:]", " ", text)
RECURSIVE printable(_)
printable(text) ==
    IF text = << >> THEN << >>
    ELSE << IF Head(text) = "\t" THEN " " ELSE Head(text) >>
         \o printable(Tail(text))

\* re.sub(c + "+", c, text): every run of c becomes one c.
RECURSIVE squeeze(_, _)
squeeze(text, c) ==
    IF Len(text) < 2 THEN text
    ELSE IF text[1] = c /\ text[2] = c THEN squeeze(Tail(text), c)
    ELSE << text[1] >> \o squeeze(Tail(text), c)

clean_text(text) == strip(squeeze(squeeze(printable(text), " "), "\n"))

\* The offsets where "^" matches under re.MULTILINE, before a character.
LineStarts(text) ==
    {i \in 0..(Len(text) - 1) : i = 0 \/ text[i] = "\n"}

\* The offsets where c stands in text.
Offsets(text, c) == {i \in 0..(Len(text) - 1) : text[i + 1] = c}

Least(set) == CHOOSE i \in set : \A j \in set : i <= j

\* The three table_markers of extract_text, in list order.
table_markers == << "keyword in line", "date at line start",
                    "balance at line start" >>

\* re.search(marker, text, re.MULTILINE).start(), or None: the first line
\* that holds a keyword, for r"(?i)^.*?(Date|...)", whose match starts at
\* the start of that line; the first line that starts with a date or with
\* "Balance brought forward" for the other two.
search(marker, text) ==
    LET starts ==
            IF marker = "keyword in line"
            THEN {i \in LineStarts(text) :
                    \E j \in Offsets(text, "D") :
                        /\ i <= j
                        /\ \A k \in i..(j - 1) : text[k + 1] # "\n"}
            ELSE IF marker = "date at line start"
            THEN LineStarts(text) \cap Offsets(text, "9")
            ELSE LineStarts(text) \cap Offsets(text, "B")
    IN  IF starts = {} THEN None ELSE Some(Least(starts))

\* As first_marker, with the smallest offset over the markers that match.
first_marker_earliest(text) ==
    LET hits == {k \in DOMAIN table_markers :
                    search(table_markers[k], text) # None}
    IN  IF hits = {} THEN None
        ELSE Some(Least({search(table_markers[k], text)[1] : k \in hits}))

\* The loop over table_markers: the match of the first marker in the list
\* that matches, or None.
first_marker(text) ==
    LET hits == {k \in DOMAIN table_markers :
                    search(table_markers[k], text) # None}
    IN  IF hits = {} THEN None
        ELSE search(table_markers[Least(hits)], text)

\* As accumulate, without the newline after a page.
RECURSIVE accumulate_unseparated(_, _)
accumulate_unseparated(full_text, pages) ==
    IF pages = << >> THEN full_text
    ELSE
        LET cleaned_text == clean_text(Head(pages))
            m == first_marker(cleaned_text)
        IN  IF m # None
            THEN full_text \o SubSeq(cleaned_text, 1, m[1])
            ELSE accumulate_unseparated(full_text \o cleaned_text,
                                        Tail(pages))

\* The loop over the pages from full_text on: what full_text is when
\* extract_text returns.
RECURSIVE accumulate(_, _)
accumulate(full_text, pages) ==
    IF pages = << >> THEN full_text
    ELSE
        LET cleaned_text == clean_text(Head(pages))
            m == first_marker(cleaned_text)
        IN  IF m # None
            THEN full_text \o SubSeq(cleaned_text, 1, m[1])
            ELSE accumulate(full_text \o cleaned_text \o << "\n" >>,
                            Tail(pages))

----------------------------------------------------------------------------

\* A statement file as the remote pipeline sees it.
\*   open    : "ok", "encrypted" (opens, is_encrypted) or "corrupt"
\*             (fitz.open raises)
\*   render  : "ok" or "fail" (loading a page or reading its text raises)
\*   text    : full_text as accumulated by extract_text before its strip()
\*   api, content, object : the remote model's reply for this statement

extract_text(doc) ==
    IF doc.open = "corrupt" THEN Raise("cannot open document")
    ELSE IF doc.open = "encrypted" THEN Raise("document closed or encrypted")
    ELSE IF doc.render # "ok" THEN Raise("cannot load page")
    ELSE Ret(strip(doc.text))

\* As annotate below, with the last occurrence taken for the first.
annotate_last(text, value, label) ==
    LET start == rfind(text, value)
    IN  IF start # -1
        THEN << [text |-> value, start |-> start,
                 end |-> start + Len(value), label |-> label] >>
        ELSE << >>

\* As annotate below, with an entity that cannot be located kept without
\* offsets.
annotate_keep(text, value, label) ==
    LET start == find(text, value)
    IN  IF start # -1
        THEN << [text |-> value, start |-> start,
                 end |-> start + Len(value), label |-> label] >>
        ELSE << [text |-> value, label |-> label] >>

\* One of the two "Find ... positions" blocks of process_statement.
annotate(text, value, label) ==
    LET start == find(text, value)
    IN  IF start # -1
        THEN << [text |-> value, start |-> start,
                 end |-> start + Len(value), label |-> label] >>
        ELSE << >>

\* The calls process_statement makes to the backend and to the parser of
\* its reply, in order: none when the text cannot be read.
backend_calls(doc) ==
    IF extract_text(doc).kind = "raise" THEN << >>
    ELSE get_entities_from_llm(doc).steps

\* As process_statement below, with the backend's exception left uncaught.
process_statement_uncaught(doc) ==
    LET text == extract_text(doc)
    IN  IF text.kind = "raise" THEN Ret([error |-> text.error])
        ELSE
            LET entities == get_entities_from_llm(doc)
            IN  IF entities.kind = "raise" THEN entities
                ELSE Ret([text |-> text.value,
                          entities |->
                              annotate(text.value,
                                       entities.value["account_number"],
                                       "ACC_NO")
                              \o annotate(text.value,
                                          entities.value["name"], "PER")])

process_statement(doc) ==
    LET text == extract_text(doc)
    IN  IF text.kind = "raise" THEN Ret([error |-> text.error])
        ELSE
            LET entities == get_entities_from_llm(doc)
            IN  IF entities.kind = "raise" THEN Ret([error |-> entities.error])
                ELSE Ret([text |-> text.value,
                          entities |->
                              annotate(text.value,
                                       entities.value["account_number"],
                                       "ACC_NO")
                              \o annotate(text.value,
                                          entities.value["name"], "PER")])

NoObject == [f \in {} |-> << >>]

\* The statements, one for each way the pipeline can run; the parts the
\* pipeline never reads for a statement are left at a default.
Unopened ==
    { [open |-> o, render |-> "ok", text |-> << >>, api |-> "ok",
       content |-> <<NOT_JSON>>, object |-> NoObject]
      : o \in {"encrypted", "corrupt"} }

Unrendered ==
    { [open |-> "ok", render |-> "fail", text |-> << >>, api |-> "ok",
       content |-> <<NOT_JSON>>, object |-> NoObject] }

Unanswered ==
    { [open |-> "ok", render |-> "ok", text |-> t, api |-> a,
       content |-> <<NOT_JSON>>, object |-> NoObject]
      : t \in SeqsUpTo(Chars, MaxTextLen), a \in {"error", "nochoices"} }

Answered ==
    { [open |-> "ok", render |-> "ok", text |-> t, api |-> "ok",
       content |-> c, object |-> IF c = <<NOT_JSON>> THEN NoObject ELSE o]
      : t \in SeqsUpTo(Chars, MaxTextLen), c \in Contents, o \in Objects }

\* Statements whose first call of the backend times out.
TimedOut == { [doc EXCEPT !.api = "timeout once"] : doc \in Answered }

Statements ==
    Unopened \cup Unrendered \cup Unanswered \cup Answered \cup TimedOut

----------------------------------------------------------------------------
\* BatchProcessor (process_multiple_pdfs.py).

\* The bank folder os.walk finds the i-th file in: one file in the first
\* folder, the others in the second.
BankOf(i) == IF i = 1 THEN "bankA" ELSE "bankB"

\* As is_password_protected, without its except clause.
is_password_protected_uncaught(doc) ==
    IF doc.open = "corrupt" THEN Raise("cannot open document")
    ELSE Ret(doc.open = "encrypted")

\* As is_password_protected, with "return False" in its except clause.
is_password_protected_or_false(doc) ==
    IF doc.open = "corrupt" THEN Ret(FALSE)
    ELSE Ret(doc.open = "encrypted")

is_password_protected(doc) ==
    IF doc.open = "corrupt" THEN Ret(TRUE)
    ELSE Ret(doc.open = "encrypted")

\* The body of the loop over pdf_files with the "continue" after a skip
\* left out: the protected file goes on to the pipeline.
process_file_no_continue(st, pdf_file, doc) ==
    LET result == process_statement(doc)
        st1 == [st EXCEPT
                  !.calls = @ \o << Call("is_password_protected", pdf_file),
                                    Call("process_statement", pdf_file) >>,
                  !.outcome = result,
                  !.skipped_files =
                      IF is_password_protected(doc).value
                      THEN Append(@, [file |-> pdf_file,
                                      bank |-> BankOf(pdf_file),
                                      reason |-> "Password protected"])
                      ELSE @,
                  !.skipped_count =
                      IF is_password_protected(doc).value THEN @ + 1 ELSE @]
    IN  IF "error" \notin DOMAIN result.value
        THEN [st1 EXCEPT
                !.all_results =
                    Append(@, [text |-> result.value.text,
                               entities |-> result.value.entities,
                               metadata |-> [filename |-> pdf_file,
                                             bank |-> BankOf(pdf_file)]]),
                !.processed_count = @ + 1]
        ELSE [st1 EXCEPT
                !.failed_files = Append(@, [file |-> pdf_file,
                                            bank |-> BankOf(pdf_file),
                                            error |-> result.value.error]),
                !.failed_count = @ + 1]

\* The body of the loop over pdf_files in process_directory, on the state
\* st of the run: the three counters, the three lists, the calls made so
\* far, the outcome of the last pipeline call and whether an exception
\* has left process_directory.
process_file(st, pdf_file, doc) ==
    LET protected == is_password_protected(doc)
        st1 == [st EXCEPT
                  !.calls = Append(@, Call("is_password_protected", pdf_file))]
    IN  IF protected.kind = "raise" THEN [st1 EXCEPT !.raised = TRUE]
        ELSE IF protected.value
        THEN [st1 EXCEPT
                !.skipped_files = Append(@, [file |-> pdf_file,
                                             bank |-> BankOf(pdf_file),
                                             reason |-> "Password protected"]),
                !.skipped_count = @ + 1]
        ELSE
            LET result == process_statement(doc)
                st2 == [st1 EXCEPT
                          !.calls = Append(@, Call("process_statement",
                                                   pdf_file)),
                          !.outcome = result]
            IN  IF result.kind = "raise"
                THEN [st2 EXCEPT
                        !.failed_files = Append(@, [file |-> pdf_file,
                                                    bank |-> BankOf(pdf_file),
                                                    error |-> result.error]),
                        !.failed_count = @ + 1]
                ELSE IF "error" \notin DOMAIN result.value
                THEN [st2 EXCEPT
                        !.all_results =
                            Append(@, [text |-> result.value.text,
                                       entities |-> result.value.entities,
                                       metadata |->
                                           [filename |-> pdf_file,
                                            bank |-> BankOf(pdf_file)]]),
                        !.processed_count = @ + 1]
                ELSE [st2 EXCEPT
                        !.failed_files = Append(@, [file |-> pdf_file,
                                                    bank |-> BankOf(pdf_file),
                                                    error |-> result.value.error]),
                        !.failed_count = @ + 1]

\* What save_reports writes: the files, and the summary's content.
save_reports(st) ==
    [files |->
        (IF st.all_results # << >>
         THEN {"successful_extractions.json", "spacy_training_data.json"}
         ELSE {})
        \cup (IF st.failed_files # << >> THEN {"failed_files.csv"} ELSE {})
        \cup (IF st.skipped_files # << >> THEN {"skipped_files.csv"} ELSE {})
        \cup {"processing_summary.json"},
     summary |-> [total_processed |-> st.processed_count,
                  successful |-> st.processed_count,
                  failed |-> st.failed_count,
                  skipped |-> st.skipped_count]]

----------------------------------------------------------------------------
\* PDFProcessor (src/pdf_processor.py).  Python's None is the empty
\* sequence and any other optional value v is <<v>>.

\* The five table_indicators of _extract_text_from_pdf, in list order.
table_indicators == << "date dr cr total", "date particulars instruments",
                       "dated amount", "opening to closing balance",
                       "transaction details" >>

\* re.search(pattern, first_page_text, re.IGNORECASE | re.MULTILINE)
\* .start(), or None: of the texts a page is made of, the column headings
\* match the second indicator and a dated row the third, where they stand.
search_indicator(pattern, text) ==
    LET starts ==
            IF pattern = "date particulars instruments"
            THEN Offsets(text, "D")
            ELSE IF pattern = "dated amount" THEN Offsets(text, "9")
            ELSE {}
    IN  IF starts = {} THEN None ELSE Some(Least(starts))

\* The loop over table_indicators from the k-th on: table_start_pos at its
\* end.
RECURSIVE table_start(_, _, _)
table_start(text, k, table_start_pos) ==
    IF k > Len(table_indicators) THEN table_start_pos
    ELSE
        LET m == search_indicator(table_indicators[k], text)
        IN  table_start(text, k + 1,
                        IF m # None /\ m[1] < table_start_pos
                        THEN m[1] ELSE table_start_pos)

\* header_content: the first page's text before the table, stripped.
header_content(first_page_text) ==
    strip(SubSeq(first_page_text, 1,
                 table_start(first_page_text, 1, Len(first_page_text))))

\* A statement file as the local pipeline sees it.
\*   open    : "ok", or the reader raises on opening it or on its first
\*             page ("corrupt", "encrypted", "nopages")
\*   message : the text of the exception the reader raises
\*   text    : the first page's text before the table, stripped
\*   nlp     : "ok", or "raise" when the model call raises
\*   ents    : the entities the model finds, [text, label]

\* What _extract_text_from_pdf returns; the error text is the reader's
\* message after the prefix "Failed to extract text from PDF: ".
extract_text_from_pdf(doc) ==
    IF doc.open # "ok" THEN [error |-> doc.message]
    ELSE [raw_text |-> doc.text, preprocessed_text |-> doc.text,
          account_number |-> << >>, person_name |-> << >>]

process_with_spacy(doc) ==
    IF doc.nlp # "ok" THEN Raise("model call failed")
    ELSE Ret([i \in DOMAIN doc.ents |->
                 [text |-> doc.ents[i].text, label |-> doc.ents[i].label]])

ErrorDocument(pdf_path, error) ==
    [filename |-> pdf_path, raw_text |-> << >>, preprocessed_text |-> << >>,
     entities |-> << >>, metadata |-> "{}", error |-> Some(error)]

\* As process_single_pdf, with the document stored whatever the call
\* returns.
process_single_pdf_store_all(processed_documents, pdf_path, doc) ==
    LET extracted_data == extract_text_from_pdf(doc)
        entities == process_with_spacy(doc)
        returned ==
            IF "error" \in DOMAIN extracted_data
            THEN ErrorDocument(pdf_path, extracted_data.error)
            ELSE IF entities.kind = "raise"
            THEN ErrorDocument(pdf_path, entities.error)
            ELSE [filename |-> pdf_path,
                  raw_text |-> extracted_data.raw_text,
                  preprocessed_text |-> extracted_data.preprocessed_text,
                  entities |-> entities.value,
                  metadata |-> "file_path",
                  error |-> None]
    IN  [call |-> Ret(returned),
         processed_documents |-> Append(processed_documents, returned)]

\* The call's outcome and the processor's processed_documents after it.
process_single_pdf(processed_documents, pdf_path, doc) ==
    LET extracted_data == extract_text_from_pdf(doc)
    IN  IF "error" \in DOMAIN extracted_data
        THEN [call |-> Ret(ErrorDocument(pdf_path, extracted_data.error)),
              processed_documents |-> processed_documents]
        ELSE
            LET entities == process_with_spacy(doc)
            IN  IF entities.kind = "raise"
                THEN [call |-> Ret(ErrorDocument(pdf_path, entities.error)),
                      processed_documents |-> processed_documents]
                ELSE
                    LET processed_doc ==
                            [filename |-> pdf_path,
                             raw_text |-> extracted_data.raw_text,
                             preprocessed_text |->
                                 extracted_data.preprocessed_text,
                             entities |-> entities.value,
                             metadata |-> "file_path",
                             error |-> None]
                    IN  [call |-> Ret(processed_doc),
                         processed_documents |->
                             Append(processed_documents, processed_doc)]

get_summary(processed_documents) ==
    [total_documents |-> Len(processed_documents),
     successful |->
         Len(SelectSeq(processed_documents, LAMBDA d : d.error = None)),
     failed |->
         Len(SelectSeq(processed_documents, LAMBDA d : d.error # None)),
     total_entities |->
         LET RECURSIVE total(_)
             total(docs) ==
                 IF docs = << >> THEN 0
                 ELSE Len(Head(docs).entities) + total(Tail(docs))
         IN  total(processed_documents)]

----------------------------------------------------------------------------
\* main.py: process_statement_folders and generate_summary.

\* "password protected" in str(result.error).lower(), on the messages of
\* the model
PasswordMessages == {"File is Password Protected"}

\* {entity.label: {...} for entity in result.entities}: for a label met
\* twice the later entity stays.  The document's entities carry neither a
\* confidence nor a position.
entities_by_label(entities) ==
    [label \in {entities[i].label : i \in DOMAIN entities} |->
        LET last == CHOOSE i \in DOMAIN entities :
                        /\ entities[i].label = label
                        /\ \A j \in DOMAIN entities :
                               entities[j].label = label => j <= i
        IN  [text |-> entities[last].text,
             confidence |-> None,
             position |-> None]]

\* The body of the loop over the PDFs of a bank folder, on the state st of
\* the run: all_results and the processor's processed_documents.
process_pdf(st, pdf_file, doc) ==
    LET done == process_single_pdf(st.processed_documents, pdf_file, doc)
        st1 == [st EXCEPT
                  !.processed_documents = done.processed_documents,
                  !.calls = Append(@, Call("process_single_pdf", pdf_file)),
                  !.outcome = done.call]
    IN  IF done.call.kind = "raise"
        THEN [st1 EXCEPT
                !.all_results =
                    Append(@, [bank_name |-> BankOf(pdf_file),
                               pdf_name |-> pdf_file,
                               error |-> done.call.error,
                               processing_status |-> "failed"])]
        ELSE
            LET result == done.call.value
            IN  IF result.error # None
                THEN IF result.error[1] \in PasswordMessages
                     THEN st1
                     ELSE st1
                ELSE [st1 EXCEPT
                        !.all_results =
                            Append(@, [bank_name |-> BankOf(pdf_file),
                                       pdf_name |-> pdf_file,
                                       extracted_text |-> result.raw_text,
                                       entities |->
                                           entities_by_label(result.entities),
                                       metadata |-> result.metadata,
                                       processing_status |-> "success"])]

IsSuccess(r) ==
    "processing_status" \in DOMAIN r /\ r.processing_status = "success"

Names(results) == [i \in DOMAIN results |-> results[i].pdf_name]

\* As label_stats, over every result instead of the successful ones.
label_stats_every_result(results, label) ==
    LET has(r) == "entities" \in DOMAIN r /\ label \in DOMAIN r.entities
        files_missing == Names(SelectSeq(results, LAMBDA r : ~has(r)))
    IN  [found |-> Len(SelectSeq(results, has)),
         missing |-> Len(files_missing),
         files_missing |-> files_missing]

\* entity_stats[label] after the loop over the results.
label_stats(results, label) ==
    LET has(r) == "entities" \in DOMAIN r /\ label \in DOMAIN r.entities
        files_missing ==
            Names(SelectSeq(results, LAMBDA r : IsSuccess(r) /\ ~has(r)))
    IN  [found |->
             Len(SelectSeq(results, LAMBDA r : IsSuccess(r) /\ has(r))),
         missing |-> Len(files_missing),
         files_missing |-> files_missing]

\* The threshold of "confidence > 0.8", in hundredths.
HighConfidence == 80

\* "confidence and confidence > 0.8"
\* As is_high, with ">=" for ">".
is_high_inclusive(confidence) ==
    /\ confidence # None
    /\ confidence[1] # 0
    /\ confidence[1] >= HighConfidence

is_high(confidence) ==
    /\ confidence # None
    /\ confidence[1] # 0
    /\ confidence[1] > HighConfidence

match(r, label) ==
    [file |-> r.pdf_name, entity |-> label, text |-> r.entities[label].text,
     confidence |-> r.entities[label].confidence]

\* The high (high = TRUE) or the low confidence matches, in the order the
\* loop appends them: result by result, PER before ACC NO.
RECURSIVE confidence_matches(_, _)
confidence_matches(results, high) ==
    IF results = << >> THEN << >>
    ELSE
        LET r == Head(results)
            of(label) ==
                IF /\ label \in DOMAIN r.entities
                   /\ is_high(r.entities[label].confidence) = high
                THEN << match(r, label) >>
                ELSE << >>
        IN  (IF IsSuccess(r) THEN of("PER") \o of("ACC NO") ELSE << >>)
            \o confidence_matches(Tail(results), high)

\* f"{(found/successful)*100:.2f}%" if successful > 0 else "0%": the text
\* "0%", or the percentage rounded to the nearest hundredth.
format_rate(found, successful) ==
    IF successful > 0
    THEN [text |-> "%.2f%%",
          hundredths |-> (2 * found * 10000 + successful) \div (2 * successful)]
    ELSE [text |-> "0%", hundredths |-> 0]

Optional(key, list) == IF list # << >> THEN key :> list ELSE << >>

generate_summary(results) ==
    LET total_pdfs == Len(results)
        successful == Len(SelectSeq(results, IsSuccess))
        failed == total_pdfs - successful
        banks_processed ==
            Cardinality({results[i].bank_name : i \in DOMAIN results})
        PER == label_stats(results, "PER")
        ACC_NO == label_stats(results, "ACC NO")
        extracted(label) ==
            LET with == SelectSeq(results,
                            LAMBDA r : IsSuccess(r)
                                       /\ label \in DOMAIN r.entities)
            IN  [i \in DOMAIN with |->
                    [file |-> with[i].pdf_name,
                     text |-> with[i].entities[label].text]]
    IN  [Total_PDFs_Processed |-> total_pdfs,
         Successfully_Processed |-> successful,
         Failed |-> failed,
         Banks_Processed |-> banks_processed,
         Success_Rate |-> format_rate(successful, total_pdfs),
         Entity_Statistics |->
             [PER |-> [Found |-> PER.found, Missing |-> PER.missing,
                       Success_Rate |-> format_rate(PER.found, successful)],
              ACC_NO |-> [Found |-> ACC_NO.found, Missing |-> ACC_NO.missing,
                          Success_Rate |->
                              format_rate(ACC_NO.found, successful)]],
         Extracted_Entities |-> [PERSON |-> extracted("PER"),
                                 ACCOUNT_NUMBER |-> extracted("ACC NO")]]
        @@ Optional("Missing_PERSON_in_Files", PER.files_missing)
        @@ Optional("Missing_ACCOUNT_NUMBER_in_Files", ACC_NO.files_missing)
        @@ Optional("High_Confidence_Matches",
                    confidence_matches(results, TRUE))
        @@ Optional("Low_Confidence_Matches",
                    confidence_matches(results, FALSE))

----------------------------------------------------------------------------
\* The inputs of the runs.

Statement(open, render, text, api, content, object) ==
    [open |-> open, render |-> render, text |-> text, api |-> api,
     content |-> content, object |-> object]

Reply(account_number, name) ==
    [account_number |-> account_number, name |-> name]

\* The statements a directory of the batch run is made of: one for each
\* way a file can go through process_directory.
SampleStatements ==
    { Statement("ok", "ok", <<"a">>, "ok", <<JSON_OBJECT>>,
                Reply(<<"a">>, <<"a">>)),
      Statement("ok", "ok", <<"a">>, "ok", <<JSON_OBJECT>>,
                Reply(<<"a", "a">>, <<"a">>)),
      Statement("ok", "ok", <<"a">>, "ok", <<JSON_OBJECT>>,
                Reply(<<"a">>, <<" ">>)),
      Statement("ok", "ok", <<"a">>, "ok", <<JSON_OBJECT>>,
                [name |-> <<"a">>]),
      Statement("ok", "ok", <<"a">>, "ok", <<NOT_JSON>>, NoObject),
      Statement("ok", "ok", <<"a">>, "error", <<NOT_JSON>>, NoObject),
      Statement("ok", "fail", << >>, "ok", <<NOT_JSON>>, NoObject),
      Statement("encrypted", "ok", << >>, "ok", <<NOT_JSON>>, NoObject),
      Statement("corrupt", "ok", << >>, "ok", <<NOT_JSON>>, NoObject) }

PDF(open, message, nlp, ents) ==
    [open |-> open, message |-> message, text |-> <<"a">>, nlp |-> nlp,
     ents |-> ents]

Ent(label) == [text |-> <<"a">>, label |-> label]

\* The statements a folder of the local-model run is made of.
SamplePDFs ==
    { PDF("ok", "", "ok", <<Ent("PER"), Ent("ACC NO")>>),
      PDF("ok", "", "ok", <<Ent("PER")>>),
      PDF("ok", "", "ok", << >>),
      PDF("ok", "", "raise", << >>),
      PDF("corrupt", "cannot open broken document", "ok", << >>),
      PDF("nopages", "page not in document", "ok", << >>),
      PDF("encrypted", "document closed or encrypted", "ok", << >>),
      PDF("encrypted", "File is Password Protected", "ok", << >>) }

Confidences == {None, Some(0), Some(HighConfidence), Some(HighConfidence + 10)}

PdfNames == {"x.pdf", "y.pdf"}

BankFolder(pdf_name) == IF pdf_name = "x.pdf" THEN "bankA" ELSE "bankB"

EntityDicts ==
    UNION { [L -> [text : {<<"a">>}, confidence : Confidences,
                   position : {None}]]
            : L \in SUBSET {"PER", "ACC NO"} }

\* The entries of a result list: those process_statement_folders appends.
ResultRecords ==
    { [bank_name |-> BankFolder(n), pdf_name |-> n, extracted_text |-> <<"a">>,
       entities |-> e, metadata |-> "file_path",
       processing_status |-> "success"] : n \in PdfNames, e \in EntityDicts }
    \cup
    { [bank_name |-> BankFolder(n), pdf_name |-> n, error |-> "error",
       processing_status |-> "failed"] : n \in PdfNames }

\* Pages of a document: a plain page, a blank one, one whose table starts
\* under a heading, one that starts with the table, one whose dated row
\* stands above the column headings, one with white space to clean, and
\* the page of Scenario A: two lines, the column headings, a dated row.
SamplePages ==
    { <<"a">>,
      << >>,
      <<"a", "\n", "D", "\n", "9">>,
      <<"D">>,
      <<"9", "\n", "D">>,
      <<"a", " ", " ", "a", "\n", "\n">>,
      <<"a", "\n", "a", "\n", "D", "\n", "9", "a">> }

\* The documents of a single extraction, as the texts of their pages: every
\* one-page document up to MaxPageLen characters, and the documents of up
\* to MaxPages sample pages.
Documents ==
    { <<p>> : p \in SeqsUpTo(PageChars, MaxPageLen) }
    \cup SeqsUpTo(SamplePages, MaxPages)

\* A statement that opens and renders, whose text is yet to be read.
Readable == Statement("ok", "ok", << >>, "ok", <<NOT_JSON>>, NoObject)

\* The local pipeline's view of a document with these pages: the reader
\* raises on doc[0] when there is no page.
FirstPage(doc_pages) ==
    IF doc_pages = << >>
    THEN PDF("nopages", "page not in document", "ok", << >>)
    ELSE [PDF("ok", "", "ok", << >>)
             EXCEPT !.text = header_content(doc_pages[1])]

----------------------------------------------------------------------------
\* The runs: one entry point is run from start to end.

VARIABLES
    entry,                \* the entry point this run executes
    pc,                   \* "run", then "done", or "raised" when an
                          \* exception leaves the entry point
    directory,            \* the files of a batch run, in the order found
    idx,                  \* the number of files the batch loop has handled
    processed_count, failed_count, skipped_count,   \* BatchProcessor
    all_results, failed_files, skipped_files,       \* the batch loop's lists
    processed_documents,  \* PDFProcessor.processed_documents
    calls,                \* the calls the batch loop has made, in order
    statement,            \* the statement of a single process_statement
    outcome,              \* the outcome of the last pipeline call
    results,              \* the argument of a single generate_summary
    report,               \* what the entry point wrote or returned
    earlier,              \* the reports of the earlier runs of process_directory
                          \* on the same BatchProcessor
    pages                 \* the texts of the pages of a single document

vars ==
    << entry, pc, directory, idx, processed_count, failed_count,
       skipped_count, all_results, failed_files, skipped_files,
       processed_documents, calls, statement, outcome, results, report,
       earlier, pages >>

NoCall == [kind |-> "none"]

NoStatement == Statement("corrupt", "ok", << >>, "ok", <<NOT_JSON>>, NoObject)

Fresh ==
    /\ pc = "run"
    /\ idx = 0
    /\ processed_count = 0 /\ failed_count = 0 /\ skipped_count = 0
    /\ all_results = << >> /\ failed_files = << >> /\ skipped_files = << >>
    /\ processed_documents = << >>
    /\ calls = << >>
    /\ outcome = NoCall
    /\ report = None
    /\ earlier = << >>

InitDirectory ==
    /\ entry = "process_directory"
    /\ directory \in SeqsUpTo(SampleStatements, MaxFiles)
    /\ statement = NoStatement /\ results = << >>
    /\ pages = << >>
    /\ Fresh

\* process_directory is called twice on one BatchProcessor, for the same
\* directory.
InitRepeat ==
    /\ entry = "process_directory twice"
    /\ directory \in SeqsUpTo(SampleStatements, MaxFiles)
    /\ statement = NoStatement /\ results = << >>
    /\ pages = << >>
    /\ Fresh

InitFolders ==
    /\ entry = "process_statement_folders"
    /\ directory \in SeqsUpTo(SamplePDFs, MaxFiles)
    /\ statement = NoStatement /\ results = << >>
    /\ pages = << >>
    /\ Fresh

InitStatement ==
    /\ entry = "process_statement"
    /\ statement \in Statements
    /\ directory = << >> /\ results = << >>
    /\ pages = << >>
    /\ Fresh

InitSummary ==
    /\ entry = "generate_summary"
    /\ results \in SeqsUpTo(ResultRecords, MaxResults)
    /\ directory = << >> /\ statement = NoStatement
    /\ pages = << >>
    /\ Fresh

InitExtract ==
    /\ entry \in {"extract_text", "_extract_text_from_pdf"}
    /\ pages \in Documents
    /\ statement = Readable
    /\ directory = << >> /\ results = << >>
    /\ Fresh

Init ==
    \/ InitDirectory \/ InitRepeat \/ InitFolders \/ InitStatement
    \/ InitSummary \/ InitExtract

\* The runs that call process_directory.
DirectoryEntries == {"process_directory", "process_directory twice"}

\* The state of a batch run, as process_file and process_pdf take it.
Run ==
    [processed_count |-> processed_count, failed_count |-> failed_count,
     skipped_count |-> skipped_count, all_results |-> all_results,
     failed_files |-> failed_files, skipped_files |-> skipped_files,
     processed_documents |-> processed_documents, calls |-> calls,
     outcome |-> outcome, raised |-> FALSE]

Becomes(st) ==
    /\ processed_count' = st.processed_count
    /\ failed_count' = st.failed_count
    /\ skipped_count' = st.skipped_count
    /\ all_results' = st.all_results
    /\ failed_files' = st.failed_files
    /\ skipped_files' = st.skipped_files
    /\ processed_documents' = st.processed_documents
    /\ calls' = st.calls
    /\ outcome' = st.outcome
    /\ pc' = IF st.raised THEN "raised" ELSE pc

\* process_directory: one turn of the loop over the files.
ProcessFile ==
    /\ entry \in DirectoryEntries /\ pc = "run"
    /\ idx < Len(directory)
    /\ idx' = idx + 1
    /\ Becomes(process_file(Run, idx + 1, directory[idx + 1]))
    /\ UNCHANGED << entry, directory, statement, results, report, earlier,
                    pages >>

\* process_directory: after the loop, save_reports.
SaveReports ==
    /\ entry \in DirectoryEntries /\ pc = "run"
    /\ idx = Len(directory)
    /\ report' = Some(save_reports(Run))
    /\ pc' = "done"
    /\ UNCHANGED << entry, directory, idx, processed_count, failed_count,
                    skipped_count, all_results, failed_files, skipped_files,
                    processed_documents, calls, statement, outcome, results,
                    earlier, pages >>

\* The second call of process_directory on the same BatchProcessor: its
\* three lists start empty, and nothing assigns the three counters.
ProcessDirectoryAgain ==
    /\ entry = "process_directory twice" /\ pc = "done"
    /\ earlier = << >>
    /\ earlier' = << report[1] >>
    /\ all_results' = << >> /\ failed_files' = << >> /\ skipped_files' = << >>
    /\ idx' = 0
    /\ calls' = << >>
    /\ pc' = "run"
    /\ UNCHANGED << entry, directory, processed_count, failed_count,
                    skipped_count, processed_documents, statement, outcome,
                    results, report, pages >>

\* process_statement_folders: one turn of the loop over the PDFs.
ProcessPdf ==
    /\ entry = "process_statement_folders" /\ pc = "run"
    /\ idx < Len(directory)
    /\ idx' = idx + 1
    /\ Becomes(process_pdf(Run, idx + 1, directory[idx + 1]))
    /\ UNCHANGED << entry, directory, statement, results, report, earlier,
                    pages >>

\* process_statement_folders: after the loop, the results file and the
\* summary file are written.
WriteSummary ==
    /\ entry = "process_statement_folders" /\ pc = "run"
    /\ idx = Len(directory)
    /\ report' = Some([files |-> {"processing_results.json",
                                  "processing_summary.json"},
                       summary |-> generate_summary(all_results)])
    /\ pc' = "done"
    /\ UNCHANGED << entry, directory, idx, processed_count, failed_count,
                    skipped_count, all_results, failed_files, skipped_files,
                    processed_documents, calls, statement, outcome, results,
                    earlier, pages >>

\* One call of BankStatementExtractor.process_statement.
ProcessStatement ==
    /\ entry = "process_statement" /\ pc = "run"
    /\ outcome' = process_statement(statement)
    /\ calls' = backend_calls(statement)
    /\ pc' = IF outcome'.kind = "raise" THEN "raised" ELSE "done"
    /\ UNCHANGED << entry, directory, idx, processed_count, failed_count,
                    skipped_count, all_results, failed_files, skipped_files,
                    processed_documents, statement, results, report,
                    earlier, pages >>

\* One call of BankStatementExtractor.extract_text.
ExtractText ==
    /\ entry = "extract_text" /\ pc = "run"
    /\ outcome' = extract_text([statement EXCEPT
                                    !.text = accumulate(<< >>, pages)])
    /\ pc' = IF outcome'.kind = "raise" THEN "raised" ELSE "done"
    /\ UNCHANGED << entry, directory, idx, processed_count, failed_count,
                    skipped_count, all_results, failed_files, skipped_files,
                    processed_documents, calls, statement, results, report,
                    earlier, pages >>

\* One call of PDFProcessor._extract_text_from_pdf.
ExtractTextFromPdf ==
    /\ entry = "_extract_text_from_pdf" /\ pc = "run"
    /\ outcome' = Ret(extract_text_from_pdf(FirstPage(pages)))
    /\ pc' = "done"
    /\ UNCHANGED << entry, directory, idx, processed_count, failed_count,
                    skipped_count, all_results, failed_files, skipped_files,
                    processed_documents, calls, statement, results, report,
                    earlier, pages >>

\* One call of generate_summary.
GenerateSummary ==
    /\ entry = "generate_summary" /\ pc = "run"
    /\ report' = Some([files |-> {}, summary |-> generate_summary(results)])
    /\ pc' = "done"
    /\ UNCHANGED << entry, directory, idx, processed_count, failed_count,
                    skipped_count, all_results, failed_files, skipped_files,
                    processed_documents, calls, statement, outcome, results,
                    earlier, pages >>

Next ==
    \/ ProcessFile
    \/ SaveReports
    \/ ProcessDirectoryAgain
    \/ ProcessPdf
    \/ WriteSummary
    \/ ProcessStatement
    \/ GenerateSummary
    \/ ExtractText
    \/ ExtractTextFromPdf

Spec == Init /\ [][Next]_vars

----------------------------------------------------------------------------
\* The claims.

InList(list, i) == \E k \in DOMAIN list : list[k].file = i

InResults(i) == \E k \in DOMAIN all_results : all_results[k].metadata.filename = i

CountCalls(fn, i) == Cardinality({k \in DOMAIN calls : calls[k] = Call(fn, i)})

\* C1: in process_directory on a fresh BatchProcessor, each turn of the
\* loop adds one to exactly one of skipped_count, failed_count and
\* processed_count, so their sum is the number of files handled so far, and
\* at the end of the run it is the number of files discovered.
C1_Conservation ==
    /\ [](entry = "process_directory" =>
            /\ skipped_count + failed_count + processed_count = idx
            /\ pc = "done" =>
                 skipped_count + failed_count + processed_count
                     = Len(directory))
    /\ [][(entry = "process_directory" /\ idx' = idx + 1) =>
            \/ /\ skipped_count' = skipped_count + 1
               /\ failed_count' = failed_count
               /\ processed_count' = processed_count
            \/ /\ skipped_count' = skipped_count
               /\ failed_count' = failed_count + 1
               /\ processed_count' = processed_count
            \/ /\ skipped_count' = skipped_count
               /\ failed_count' = failed_count
               /\ processed_count' = processed_count + 1]_vars

\* C1's case: a finished run that skipped, failed and processed files.
C1_Witness ==
    /\ entry = "process_directory" /\ pc = "done"
    /\ skipped_count > 0 /\ failed_count > 0 /\ processed_count > 0

\* The run of C2: three files, the first good, the second encrypted, the
\* third one that cannot be opened.
ScenarioC ==
    /\ entry = "process_directory" /\ pc = "done"
    /\ Len(directory) = 3
    /\ directory[1].open = "ok" /\ InResults(1)
    /\ directory[2].open = "encrypted"
    /\ directory[3].open = "corrupt"

\* C2 as stated: a file that cannot be opened or rendered is recorded as
\* failed, only an encrypted file is recorded as skipped, and the run of
\* ScenarioC ends with successful=1, skipped=1, failed=1, total=3.
C2_CorruptIsFailed ==
    entry = "process_directory" =>
        /\ \A i \in 1..idx :
              /\ (directory[i].open = "corrupt"
                  \/ (directory[i].open = "ok" /\ directory[i].render = "fail"))
                     => InList(failed_files, i)
              /\ InList(skipped_files, i) => directory[i].open = "encrypted"
        /\ ScenarioC =>
              /\ report[1].summary.successful = 1
              /\ report[1].summary.skipped = 1
              /\ report[1].summary.failed = 1
              /\ Len(directory) = 3

\* C2 as amended: a file is recorded as skipped exactly when it is
\* encrypted or cannot be opened, and as failed exactly when it opens
\* unencrypted and its rendering or its entity backend fails; the run of
\* ScenarioC ends with successful=1, skipped=2, failed=0, which add up to
\* the 3 files.
C2_UnopenableIsSkipped ==
    entry = "process_directory" =>
        /\ \A i \in 1..idx :
              /\ InList(skipped_files, i)
                    <=> directory[i].open \in {"encrypted", "corrupt"}
              /\ InList(failed_files, i)
                    <=> /\ directory[i].open = "ok"
                        /\ \/ directory[i].render = "fail"
                           \/ get_entities_from_llm(directory[i]).kind = "raise"
        /\ ScenarioC =>
              /\ report[1].summary.successful = 1
              /\ report[1].summary.skipped = 2
              /\ report[1].summary.failed = 0
              /\ report[1].summary.successful + report[1].summary.skipped
                    + report[1].summary.failed = 3

\* C2's case: the run of ScenarioC has ended.
C2_Witness == ScenarioC

\* C3: a turn of the loop of process_directory on a file the pre-check
\* reports protected makes the pre-check and no other call, appends the
\* file to the skipped list, adds one to skipped_count and leaves
\* failed_count, processed_count and the other two lists as they are.
C3_ProtectedNeverAttempted ==
    [][(/\ entry = "process_directory" /\ idx' = idx + 1
        /\ is_password_protected(directory[idx + 1]).value) =>
            /\ calls' = Append(calls, Call("is_password_protected", idx + 1))
            /\ skipped_files' =
                   Append(skipped_files,
                          [file |-> idx + 1, bank |-> BankOf(idx + 1),
                           reason |-> "Password protected"])
            /\ skipped_count' = skipped_count + 1
            /\ failed_count' = failed_count
            /\ processed_count' = processed_count
            /\ failed_files' = failed_files
            /\ all_results' = all_results]_vars

\* C3's case: an encrypted file has been handled after a file that went
\* through the pipeline.
C3_Witness ==
    /\ entry = "process_directory"
    /\ idx >= 2
    /\ directory[idx].open = "encrypted"
    /\ CountCalls("process_statement", idx - 1) = 1
    /\ InList(skipped_files, idx)

\* The call each batch loop makes first for a file it visits.
VisitCall ==
    IF entry = "process_directory" THEN "is_password_protected"
    ELSE "process_single_pdf"

BatchEntries == {"process_directory", "process_statement_folders"}

\* C4: in both batch runs, whatever the outcomes of the documents, no
\* exception leaves the loop, so that short of the report the run always
\* has a next file to visit or the report to write; every step either
\* visits the next file or, all files visited, writes the report, so the
\* report is reached after as many turns as there are files; and when it
\* is written every discovered file has been visited exactly once.
C4_BatchCompletes ==
    /\ [](entry \in BatchEntries =>
            /\ pc \in {"run", "done"}
            /\ idx <= Len(directory)
            /\ \A i \in 1..idx : CountCalls(VisitCall, i) = 1
            /\ \A i \in (idx + 1)..Len(directory) :
                   CountCalls(VisitCall, i) = 0
            /\ pc = "done" =>
                   /\ idx = Len(directory)
                   /\ report # None
                   /\ "processing_summary.json" \in report[1].files)
    /\ [][(entry \in BatchEntries) =>
            ((idx < Len(directory) /\ idx' = idx + 1 /\ pc' = "run")
             \/ (idx = Len(directory) /\ idx' = idx /\ pc' = "done"))]_vars

\* C4's case: a local-model run has written its report after a document
\* with an error, a protected one and a good one, in that order.
C4_Witness ==
    /\ entry = "process_statement_folders" /\ pc = "done"
    /\ Len(directory) = 3
    /\ directory[1].nlp = "raise"
    /\ directory[2].message \in PasswordMessages
    /\ directory[3].open = "ok" /\ directory[3].nlp = "ok"
    /\ report # None

\* The files of a local-model run whose document carries an error that is
\* not the protected one.
ErroredFiles ==
    {i \in 1..Len(directory) :
        /\ directory[i].open # "ok" \/ directory[i].nlp # "ok"
        /\ ~(directory[i].open # "ok"
             /\ directory[i].message \in PasswordMessages)}

\* The files of a local-model run that are skipped as protected.
ProtectedFiles ==
    {i \in 1..Len(directory) :
        directory[i].open # "ok" /\ directory[i].message \in PasswordMessages}

\* C5 as stated: in process_statement_folders every file whose document
\* carries an error, other than a protected one, is in the results with
\* status failed, the summary counts it in Failed and in Total PDFs
\* Processed, and Total PDFs Processed is the number of files discovered
\* less the skipped ones.
C5_ErroredRecordedFailed ==
    (entry = "process_statement_folders" /\ pc = "done") =>
        /\ \A i \in ErroredFiles :
              \E k \in DOMAIN all_results :
                  /\ all_results[k].pdf_name = i
                  /\ all_results[k].processing_status = "failed"
        /\ report[1].summary.Failed = Cardinality(ErroredFiles)
        /\ report[1].summary.Total_PDFs_Processed
              = Len(directory) - Cardinality(ProtectedFiles)

\* C5's failing input has been run: one file, which cannot be opened.
C5_FailingInput ==
    /\ entry = "process_statement_folders" /\ pc = "done"
    /\ Len(directory) = 1
    /\ directory[1].open = "corrupt"

\* C6: process_statement and process_single_pdf return to the caller
\* whatever fails: when rendering, the entity backend or the validation of
\* its reply fails, the call returns a result that carries the error (for
\* process_single_pdf with no entities), and it never raises.
C6_FailuresBecomeData ==
    /\ (entry = "process_statement" /\ pc # "run") =>
          /\ outcome.kind = "return"
          /\ (\/ statement.open # "ok"
              \/ statement.render # "ok"
              \/ statement.api # "ok"
              \/ statement.content = <<NOT_JSON>>
              \/ ~(FieldNames \subseteq DOMAIN statement.object))
                 => "error" \in DOMAIN outcome.value
    /\ (entry = "process_statement_folders" /\ idx > 0) =>
          /\ outcome.kind = "return"
          /\ (directory[idx].open # "ok" \/ directory[idx].nlp # "ok")
                 => /\ outcome.value.error # None
                    /\ outcome.value.entities = << >>

\* C6's case: process_statement has returned for a statement whose reply
\* the backend could not parse.
C6_Witness ==
    /\ entry = "process_statement" /\ pc = "done"
    /\ statement.open = "ok" /\ statement.render = "ok"
    /\ statement.api = "ok" /\ statement.content = <<NOT_JSON>>
    /\ outcome = Ret([error |-> "JSONDecodeError"])

\* A single process_statement has returned for a statement that was read
\* and whose reply was parsed.
ReplyParsed ==
    /\ entry = "process_statement" /\ pc = "done"
    /\ statement.open = "ok" /\ statement.render = "ok"
    /\ statement.api = "ok" /\ statement.content # <<NOT_JSON>>

Blank(value) == \A i \in DOMAIN value : value[i] = " "

\* C7 as stated: a reply in which account_number or name is absent, or is
\* empty or blank, makes process_statement return an error, and no entity.
C7_FieldValidation ==
    (/\ ReplyParsed
     /\ \E field \in FieldNames :
           \/ field \notin DOMAIN statement.object
           \/ Blank(statement.object[field]))
        => /\ "error" \in DOMAIN outcome.value
           /\ "entities" \notin DOMAIN outcome.value

\* C7's failing input has been run: the header "a" and the reply
\* {"account_number": "a", "name": " "}.
C7_FailingInput ==
    /\ ReplyParsed
    /\ statement.text = <<"a">>
    /\ statement.object = Reply(<<"a">>, <<" ">>)

\* The header process_statement works on.
Header == strip(statement.text)

\* The value the backend returns for a field, trimmed.
Extracted(field) == strip(statement.object[field])

Unlocatable(value) ==
    ~ \E i \in 0..Len(Header) : OccursAt(Header, value, i)

LabelOf(field) == IF field = "name" THEN "PER" ELSE "ACC_NO"

Entities == {outcome.value.entities[k] : k \in DOMAIN outcome.value.entities}

C9_OffsetRoundTrip ==
    (entry = "process_statement" /\ pc = "done"
     /\ "error" \notin DOMAIN outcome.value) =>
        \A e \in Entities :
            /\ 0 <= e.start /\ e.start <= e.end
            /\ e.end <= Len(outcome.value.text)
            /\ Slice(outcome.value.text, e.start, e.end) = e.text
            /\ \A j \in 0..(e.start - 1) :
                   Slice(outcome.value.text, j, j + Len(e.text)) # e.text

\* C9's case: an entity whose text occurs twice in the header, and is not
\* at the header's start only because the header is its text.
C9_Witness ==
    /\ entry = "process_statement" /\ pc = "done"
    /\ "error" \notin DOMAIN outcome.value
    /\ \E e \in Entities :
          /\ Len(e.text) > 0
          /\ Len(outcome.value.text) > Len(e.text)
          /\ OccursAt(outcome.value.text, e.text, e.start + 1)

\* The results of status success, by their place in the list.
Successes ==
    {i \in DOMAIN results : results[i].processing_status = "success"}

Found(label) == {i \in Successes : label \in DOMAIN results[i].entities}

Missing(label) == {i \in Successes : label \notin DOMAIN results[i].entities}

\* The missing files the summary lists under key: none without the key.
Listed(summary, key) == IF key \in DOMAIN summary THEN summary[key] ELSE << >>

\* list names the files of the results in set, each as often as it is there.
ListsFiles(list, set) ==
    /\ Len(list) = Cardinality(set)
    /\ \A n \in PdfNames :
          Cardinality({k \in DOMAIN list : list[k] = n})
              = Cardinality({i \in set : results[i].pdf_name = n})

\* rate is "0%" for no successful result, and else found / successful as
\* a percentage to the nearest hundredth.
IsRate(rate, found, successful) ==
    IF successful = 0 THEN rate.text = "0%"
    ELSE /\ rate.text = "%.2f%%"
         /\ 2 * (rate.hundredths * successful - found * 10000) <= successful
         /\ 2 * (found * 10000 - rate.hundredths * successful) <= successful

LabelSummary(summary, label, statistics, key) ==
    /\ statistics.Found = Cardinality(Found(label))
    /\ statistics.Missing = Cardinality(Missing(label))
    /\ ListsFiles(Listed(summary, key), Missing(label))
    /\ statistics.Found + statistics.Missing = Cardinality(Successes)
    /\ IsRate(statistics.Success_Rate, statistics.Found, Cardinality(Successes))

\* C10: for every list of results and both labels, generate_summary's
\* Found is the number of successful results with the label, Missing the
\* number of successful results without it, the files listed as missing
\* are those results' files, Found + Missing is the successful count, and
\* the label's success rate is Found / successful, or "0%" when no result
\* is successful.
C10_LabelStatistics ==
    (entry = "generate_summary" /\ pc = "done") =>
        LET summary == report[1].summary
        IN  /\ summary.Successfully_Processed = Cardinality(Successes)
            /\ LabelSummary(summary, "PER", summary.Entity_Statistics.PER,
                            "Missing_PERSON_in_Files")
            /\ LabelSummary(summary, "ACC NO",
                            summary.Entity_Statistics.ACC_NO,
                            "Missing_ACCOUNT_NUMBER_in_Files")

\* C10's case: a failed result and then a successful one with an account
\* number and no person.
C10_Witness ==
    /\ entry = "generate_summary" /\ pc = "done"
    /\ Len(results) = 2
    /\ results[1].processing_status = "failed"
    /\ results[2].processing_status = "success"
    /\ DOMAIN results[2].entities = {"ACC NO"}
    /\ report[1].summary.Entity_Statistics.PER.Missing = 1

----------------------------------------------------------------------------
\* C11

\* The entries of list for file n, entity label and confidence c.
EntriesOf(list, n, label, c) ==
    {k \in DOMAIN list : /\ list[k].file = n
                         /\ list[k].entity = label
                         /\ list[k].confidence = c}

\* The found entities with that file, label and confidence.
FoundWith(n, label, c) ==
    {i \in Found(label) : /\ results[i].pdf_name = n
                          /\ results[i].entities[label].confidence = c}

\* Python's 0.8, in hundredths: the confidence is present and above it.
AboveThreshold(c) == c # None /\ c[1] > 80

\* C11: generate_summary places every found entity of a successful result
\* in exactly one of the high confidence and low confidence lists: in the
\* high list if and only if its confidence is present and strictly greater
\* than 0.8, so that an absent confidence, 0 and exactly 0.8 are all low;
\* the lists hold nothing else.
C11_ConfidencePartition ==
    (entry = "generate_summary" /\ pc = "done") =>
        LET summary == report[1].summary
            high == Listed(summary, "High_Confidence_Matches")
            low == Listed(summary, "Low_Confidence_Matches")
            pairs == Cardinality(Found("PER")) + Cardinality(Found("ACC NO"))
        IN  /\ Len(high) + Len(low) = pairs
            /\ \A n \in PdfNames, label \in {"PER", "ACC NO"},
                  c \in Confidences :
                    LET found == Cardinality(FoundWith(n, label, c))
                    IN  /\ Cardinality(EntriesOf(high, n, label, c))
                           = IF AboveThreshold(c) THEN found ELSE 0
                        /\ Cardinality(EntriesOf(low, n, label, c))
                           = IF AboveThreshold(c) THEN 0 ELSE found

\* A summary of two successful results whose entities have the confidences
\* None, 0.8 and 0.9: one high match and two low ones.
C11_Witness ==
    /\ entry = "generate_summary" /\ pc = "done"
    /\ Len(results) = 2
    /\ Successes = {1, 2}
    /\ DOMAIN results[1].entities = {"PER", "ACC NO"}
    /\ results[1].entities["PER"].confidence = None
    /\ results[1].entities["ACC NO"].confidence = Some(80)
    /\ DOMAIN results[2].entities = {"PER"}
    /\ results[2].entities["PER"].confidence = Some(90)
    /\ Len(report[1].summary["High_Confidence_Matches"]) = 1
    /\ Len(report[1].summary["Low_Confidence_Matches"]) = 2

----------------------------------------------------------------------------
\* C12

\* C12: the second run of process_directory over the same directory with
\* the same BatchProcessor reports the successful, failed and skipped
\* counts of the first run, and generate_summary called again on the same
\* result list returns the summary it returned before.
C12_ReplaySafe ==
    /\ (entry = "process_directory twice" /\ pc = "done" /\ earlier # << >>)
          => /\ report[1].summary.successful = earlier[1].summary.successful
             /\ report[1].summary.failed = earlier[1].summary.failed
             /\ report[1].summary.skipped = earlier[1].summary.skipped
    /\ (entry = "generate_summary" /\ pc = "done")
          => generate_summary(results) = report[1].summary

\* The smallest run that breaks C12: a directory of one good statement,
\* run twice.
C12_FailingInput ==
    /\ entry = "process_directory twice" /\ pc = "done" /\ earlier # << >>
    /\ Len(directory) = 1
    /\ earlier[1].summary.successful = 1
    /\ report[1].summary.successful = 2
    /\ Len(all_results) = 1

----------------------------------------------------------------------------
\* C13

\* The cleaned text of the k-th page.
Cleaned(k) == clean_text(pages[k])

\* The offsets at which the patterns of extract_text match text.
MarkerOffsets(text) ==
    {search(table_markers[k], text)[1] :
        k \in {j \in DOMAIN table_markers :
                  search(table_markers[j], text) # None}}

\* The offsets at which the patterns of _extract_text_from_pdf match text.
IndicatorOffsets(text) ==
    {search_indicator(table_indicators[k], text)[1] :
        k \in {j \in DOMAIN table_indicators :
                  search_indicator(table_indicators[j], text) # None}}

\* The pages on which a pattern of extract_text matches.
HitPages == {k \in DOMAIN pages : MarkerOffsets(Cleaned(k)) # {}}

\* The cleaned text of the pages before the k-th, a newline after each, as
\* extract_text accumulates it.
RECURSIVE PagesBefore(_)
PagesBefore(k) ==
    IF k <= 1 THEN << >>
    ELSE PagesBefore(k - 1) \o Cleaned(k - 1) \o << "\n" >>

\* C13: when patterns match the text of a page, the segmenter cuts the
\* header at the smallest match offset over all patterns, whatever the
\* order of the patterns in the list: extract_text on the first page with a
\* match, _extract_text_from_pdf on the first page.
C13_EarliestBoundary ==
    /\ (entry = "extract_text" /\ pc = "done" /\ HitPages # {}) =>
          LET k == Least(HitPages)
          IN  outcome.value =
                  strip(PagesBefore(k)
                        \o SubSeq(Cleaned(k), 1,
                                  Least(MarkerOffsets(Cleaned(k)))))
    /\ (/\ entry = "_extract_text_from_pdf" /\ pc = "done"
        /\ pages # << >> /\ IndicatorOffsets(pages[1]) # {}) =>
          outcome.value.raw_text =
              strip(SubSeq(pages[1], 1, Least(IndicatorOffsets(pages[1]))))

\* The smallest document that breaks C13: one page, a dated row above the
\* column headings. The date pattern matches at offset 0, the keyword
\* pattern, first in the list, at offset 2, and the dated row is returned
\* as the header.
C13_FailingInput ==
    /\ entry = "extract_text" /\ pc = "done"
    /\ pages = << <<"9", "\n", "D">> >>
    /\ search("date at line start", Cleaned(1)) = Some(0)
    /\ search("keyword in line", Cleaned(1)) = Some(2)
    /\ outcome.value = <<"9">>

----------------------------------------------------------------------------
\* C14

\* The page of Scenario A, "Name: Jane Doe\nAcc No: 12345\nDate Particulars
\* Amount\n01/01/24 ...": two lines, the column headings, a dated row.
ScenarioA == <<"a", "\n", "a", "\n", "D", "\n", "9", "a">>

\* The offset extract_text cuts text at: that of the first pattern of the
\* list that matches.
CutOffset(text) ==
    IF search("keyword in line", text) # None
    THEN search("keyword in line", text)[1]
    ELSE IF search("date at line start", text) # None
    THEN search("date at line start", text)[1]
    ELSE search("balance at line start", text)[1]

\* What extract_text has accumulated when it returns on a hit: the pages
\* before the first page with a match, and that page before the cut.
Accumulated ==
    LET k == Least(HitPages)
    IN  PagesBefore(k) \o SubSeq(Cleaned(k), 1, CutOffset(Cleaned(k)))

\* C14 as stated: on a hit extract_text returns exactly the accumulated
\* cleaned text of the pages before the first page with a match followed
\* by that page's cleaned text before the match; the header of Scenario A
\* keeps its final newline; a match at offset 0 of the first page gives the
\* empty header.
C14_HeaderKeepsNewline ==
    (entry = "extract_text" /\ pc = "done" /\ HitPages # {}) =>
        /\ outcome.value = Accumulated
        /\ pages = <<ScenarioA>> => outcome.value = <<"a", "\n", "a", "\n">>
        /\ (Least(HitPages) = 1 /\ CutOffset(Cleaned(1)) = 0)
              => outcome.value = << >>

\* C14 as amended: on a hit extract_text returns the accumulated text (the
\* cleaned text of each page before the first page with a match, a newline
\* after each, then that page's cleaned text before the match of the first
\* pattern in the list that matches) stripped of white space at both ends,
\* and nothing of what follows the match; the header of Scenario A is its
\* two lines without the final newline; a match at offset 0 of the first
\* page gives the empty header.
C14_HeaderStripped ==
    (entry = "extract_text" /\ pc = "done" /\ HitPages # {}) =>
        /\ outcome.kind = "return"
        /\ outcome.value = strip(Accumulated)
        /\ pages = <<ScenarioA>> => outcome.value = <<"a", "\n", "a">>
        /\ (Least(HitPages) = 1 /\ CutOffset(Cleaned(1)) = 0)
              => outcome.value = << >>

\* C14's case: the table starts on the second page, under a line of header
\* text, and the header is the first page and that line.
C14_Witness ==
    /\ entry = "extract_text" /\ pc = "done"
    /\ Len(pages) = 2 /\ HitPages = {2}
    /\ CutOffset(Cleaned(2)) = 2
    /\ outcome.value = <<"a", "\n", "a">>

----------------------------------------------------------------------------
\* C15

\* The cleaned texts of the first k pages, one after the other.
RECURSIVE Concatenated(_)
Concatenated(k) ==
    IF k = 0 THEN << >> ELSE Concatenated(k - 1) \o Cleaned(k)

\* No pattern of _extract_text_from_pdf matches on any page.
NoIndicator == \A k \in DOMAIN pages : IndicatorOffsets(pages[k]) = {}

\* C15 as stated: when no boundary pattern matches on any page, whatever
\* the number of pages, zero included, the segmenter returns without an
\* error the cleaned texts of all pages one after the other, nothing
\* added and nothing removed.
C15_PlainConcatenation ==
    /\ (entry = "extract_text" /\ pc \in {"done", "raised"} /\ HitPages = {})
          => /\ outcome.kind = "return"
             /\ outcome.value = Concatenated(Len(pages))
    /\ (entry = "_extract_text_from_pdf" /\ pc = "done" /\ NoIndicator)
          => /\ "error" \notin DOMAIN outcome.value
             /\ outcome.value.raw_text = Concatenated(Len(pages))

\* C15 as amended: when no boundary pattern matches on any page,
\* extract_text returns without an error the cleaned texts of all pages in
\* page order, a newline after each, stripped of white space at both ends,
\* which is the empty header for a document of no pages;
\* _extract_text_from_pdf reads the first page only: it returns that
\* page's text stripped of white space at both ends, and an error for a
\* document of no pages.
C15_JoinedAndStripped ==
    /\ (entry = "extract_text" /\ pc \in {"done", "raised"} /\ HitPages = {})
          => /\ outcome.kind = "return"
             /\ outcome.value = strip(PagesBefore(Len(pages) + 1))
             /\ pages = << >> => outcome.value = << >>
    /\ (entry = "_extract_text_from_pdf" /\ pc = "done" /\ NoIndicator)
          => IF pages = << >> THEN "error" \in DOMAIN outcome.value
             ELSE /\ "error" \notin DOMAIN outcome.value
                  /\ outcome.value.raw_text = strip(pages[1])

\* C15's case: two pages without a marker, the second with white space to
\* clean; the header is the two cleaned texts with a newline between them.
C15_Witness ==
    /\ entry = "extract_text" /\ pc = "done"
    /\ Len(pages) = 2 /\ HitPages = {}
    /\ Cleaned(2) = <<"a", " ", "a">>
    /\ outcome.value = <<"a", "\n", "a", " ", "a">>

----------------------------------------------------------------------------
\* C16

\* The backend answered the statement's one call with a reply text.
ReplyReceived ==
    /\ entry = "process_statement" /\ pc = "done"
    /\ statement.open = "ok" /\ statement.render = "ok"
    /\ statement.api = "ok"

\* The number of calls of fn made.
Made(fn) == Cardinality({k \in DOMAIN calls : calls[k].fn = fn})

\* The reply text is the JSON object, white space apart.
ParsesAsIs ==
    SelectSeq(statement.content, LAMBDA t : t # NEWLINE) = <<JSON_OBJECT>>

\* The reply text is the JSON object once newlines and code-fence markers
\* are taken out.
ParsesOnceCleaned ==
    SelectSeq(statement.content,
              LAMBDA t : t \notin {NEWLINE, FENCE_JSON, FENCE})
        = <<JSON_OBJECT>>

\* C16: the reply is parsed at most twice.  When the first parse succeeds
\* there is no cleanup and no second parse; when it fails, exactly one
\* cleanup pass and exactly one re-parse follow, in that order; if the
\* re-parse gives an object with both fields the document is successful,
\* and if the re-parse fails the document is failed, with nothing
\* attempted after it.
C16_AtMostTwoParses ==
    ReplyReceived =>
        /\ Made("json.loads") <= 2 /\ Made("cleanup") <= 1
        /\ ParsesAsIs =>
              calls = << Call("create", 1), Call("json.loads", 1) >>
        /\ ~ParsesAsIs =>
              /\ calls = << Call("create", 1), Call("json.loads", 1),
                            Call("cleanup", 1), Call("json.loads", 1) >>
              /\ (ParsesOnceCleaned /\ DOMAIN statement.object = FieldNames)
                    => "error" \notin DOMAIN outcome.value
              /\ ~ParsesOnceCleaned => "error" \in DOMAIN outcome.value

\* C16's case, Scenario D: the reply is the object inside a code fence; the
\* second parse succeeds and the document is successful.
C16_Witness ==
    /\ ReplyReceived
    /\ statement.content =
           <<FENCE_JSON, NEWLINE, JSON_OBJECT, NEWLINE, FENCE>>
    /\ DOMAIN statement.object = FieldNames
    /\ Made("json.loads") = 2 /\ Made("cleanup") = 1
    /\ "error" \notin DOMAIN outcome.value
    /\ Len(outcome.value.entities) = 2

----------------------------------------------------------------------------
\* C17

\* A statement that reads and whose backend times out on the first call and
\* would answer a second one.
TransientFailure ==
    /\ entry = "process_statement" /\ pc = "done"
    /\ statement.open = "ok" /\ statement.render = "ok"
    /\ statement.api = "timeout once"

\* C17: when the call of the remote model fails transiently it is made
\* again, and a single transient failure followed by an attempt that is
\* answered with both fields yields a successful document.
C17_TransientRetried ==
    TransientFailure =>
        /\ Made("create") >= 2
        /\ (/\ create(statement, 2).kind = "return"
            /\ ParsesAsIs
            /\ DOMAIN statement.object = FieldNames)
              => "error" \notin DOMAIN outcome.value

\* The smallest statement that breaks C17: the first call times out, a
\* second would return both fields; one call is made and the document
\* is failed.
C17_FailingInput ==
    /\ TransientFailure
    /\ statement.text = <<"a">>
    /\ statement.content = <<JSON_OBJECT>>
    /\ statement.object = Reply(<<"a">>, <<"a">>)
    /\ calls = << Call("create", 1) >>
    /\ outcome.value = [error |-> "Request timed out"]

----------------------------------------------------------------------------
\* C18

\* The calls of process_single_pdf so far that returned a document with
\* error set.
ErrorReturns ==
    {i \in 1..idx : \/ directory[i].open # "ok"
                    \/ directory[i].nlp # "ok"}

\* C18: in a run of process_single_pdf calls on one PDFProcessor, a call
\* that returns a document without error appends that document to
\* processed_documents and a call that returns a document with error set
\* leaves processed_documents as it is; so processed_documents holds the
\* documents returned without error, in call order, and get_summary
\* reports failed = 0 and successful = total_documents, however many calls
\* returned an error.
C18_OnlySuccessesStored ==
    /\ [](entry = "process_statement_folders" =>
            /\ Len(processed_documents) = idx - Cardinality(ErrorReturns)
            /\ \A k \in DOMAIN processed_documents :
                  /\ processed_documents[k].error = None
                  /\ processed_documents[k].filename \notin ErrorReturns
                  /\ \A j \in 1..(k - 1) :
                        processed_documents[j].filename
                            < processed_documents[k].filename
            /\ get_summary(processed_documents).failed = 0
            /\ get_summary(processed_documents).successful
                  = get_summary(processed_documents).total_documents)
    /\ [][(entry = "process_statement_folders" /\ idx' = idx + 1) =>
            /\ outcome'.kind = "return"
            /\ processed_documents' =
                  IF outcome'.value.error = None
                  THEN Append(processed_documents, outcome'.value)
                  ELSE processed_documents]_vars

\* C18's case: after three calls, of which two returned an error, one
\* document is stored and the summary reports no failure.
C18_Witness ==
    /\ entry = "process_statement_folders"
    /\ idx = 3 /\ Cardinality(ErrorReturns) = 2
    /\ Len(processed_documents) = 1
    /\ get_summary(processed_documents).failed = 0
    /\ get_summary(processed_documents).total_documents = 1

====
